---- MODULE Spec2Model ----
(***************************************************************************)
(* git-releasenotes: commit classification (process_commit_with_pr),       *)
(* consolidation of dependabot update lines                                *)
(* (consolidate_dependabot_updates) and document assembly                  *)
(* (generate_release_notes), src/src/lib.rs.                               *)
(*                                                                         *)
(* Text is modelled as TLA+ strings, character by character.  Three        *)
(* characters of the program's text cannot be written inside a TLA+ string *)
(* and are written with a stand-in that occurs nowhere else:               *)
(*     '  stands for the backtick U+0060                                   *)
(*     >  stands for the arrow U+2192                                      *)
(*     !  stands for the warning sign U+26A0                               *)
(* Alphabet lists the characters in the byte order Rust's string           *)
(* comparison uses, the stand-ins at the positions of the characters they  *)
(* stand for.                                                              *)
(***************************************************************************)
EXTENDS Integers, Sequences, FiniteSets, TLC

VARIABLES
    pc,                  \* position of the run
    args,                \* arguments of the call under study
    pr_number,           \* process_commit_with_pr: its local pr_number
    calls,               \* requests sent to the GitHub API, in order
    responses,           \* the answers received to them, in order
    result,              \* return value of process_commit_with_pr
    dependabot_updates,  \* generate_release_notes: first argument / local
    other_changes,       \* generate_release_notes: second argument / local
    updates,             \* consolidate_dependabot_updates: its argument
    li,                  \* consolidate_dependabot_updates: index of the next line
    package_updates,     \* consolidate_dependabot_updates: HashMap pkg -> (from, to, prs)
    other_updates,       \* consolidate_dependabot_updates: lines that did not parse
    final_output_lines,  \* generate_release_notes: lines emitted so far
    full_output,         \* the returned document
    commit_ids,          \* main: the commits walked from HEAD, newest first
    oi,                  \* main: index of the next commit of "for oid in commit_ids"
    main_args,           \* main: include_pr_numbers, octocrab, owner, repo_name
    outcomes             \* history: what process_commit returned, commit by commit

vars == <<pc, args, pr_number, calls, responses, result, dependabot_updates, other_changes,
          updates, li, package_updates, other_updates, final_output_lines,
          full_output, commit_ids, oi, main_args, outcomes>>

main_vars == <<commit_ids, oi, main_args, outcomes>>

------------------------------------------------------------------------------
(* Option values *)

None == <<>>

Some(v) == <<v>>

------------------------------------------------------------------------------
(* Characters and strings (std::string::String / str) *)

Alphabet == " #()+,-./0123456789:ABCDEFGHIJKLMNOPQRSTUVWXYZ[]_'abcdefghijklmnopqrstuvwxyz|>!"

UpperCase == "ABCDEFGHIJKLMNOPQRSTUVWXYZ"

LowerCase == "abcdefghijklmnopqrstuvwxyz"

DigitChars == "0123456789"

At(s, i) == SubSeq(s, i, i)

CharsOf(s) == {At(s, i) : i \in 1..Len(s)}

Digits == CharsOf(DigitChars)

Min(S) == CHOOSE m \in S : \A n \in S : m <= n

Max(S) == CHOOSE m \in S : \A n \in S : n <= m

IndexIn(c, table) == Min({i \in 1..Len(table) : At(table, i) = c})

Code(c) == IndexIn(c, Alphabet)

\* <str as Ord>::lt : byte-wise lexicographic order
LexLess(s, t) ==
    LET n == IF Len(s) < Len(t) THEN Len(s) ELSE Len(t)
        d == {i \in 1..n : At(s, i) # At(t, i)}
    IN  IF d = {} THEN Len(s) < Len(t)
        ELSE Code(At(s, Min(d))) < Code(At(t, Min(d)))

\* lit occurs in s starting at position i
StartsAt(s, i, lit) ==
    /\ i >= 1
    /\ i + Len(lit) - 1 <= Len(s)
    /\ SubSeq(s, i, i + Len(lit) - 1) = lit

starts_with(s, lit) == StartsAt(s, 1, lit)

contains(s, lit) == \E i \in 1..(Len(s) + 1) : StartsAt(s, i, lit)

\* end (exclusive) of the longest run of characters outside Stop starting at i
RunEnd(s, i, Stop) ==
    Min({j \in i..(Len(s) + 1) : j = Len(s) + 1 \/ At(s, j) \in Stop})

\* end (exclusive) of the longest run of characters inside Keep starting at i
RunEndIn(s, i, Keep) ==
    Min({j \in i..(Len(s) + 1) : j = Len(s) + 1 \/ At(s, j) \notin Keep})

LowerChar(c) ==
    IF c \in CharsOf(UpperCase) THEN At(LowerCase, IndexIn(c, UpperCase)) ELSE c

RECURSIVE to_lowercase(_)
to_lowercase(s) ==
    IF s = "" THEN ""
    ELSE LowerChar(At(s, 1)) \o to_lowercase(SubSeq(s, 2, Len(s)))

WhiteSpace == {" ", "\n", "\t"}

trim_start(s) == SubSeq(s, RunEndIn(s, 1, WhiteSpace), Len(s))

trim_end(s) ==
    SubSeq(s, 1, Max({j \in 0..Len(s) : j = 0 \/ At(s, j) \notin WhiteSpace}))

trim(s) == trim_end(trim_start(s))

\* str::lines : split at "\n"; a final empty piece is not a line
RECURSIVE lines(_)
lines(s) ==
    IF s = "" THEN <<>>
    ELSE LET e == RunEnd(s, 1, {"\n"})
         IN  <<SubSeq(s, 1, e - 1)>> \o lines(SubSeq(s, e + 1, Len(s)))

\* [String]::join
RECURSIVE join(_, _)
join(v, sep) ==
    IF v = <<>> THEN ""
    ELSE IF Len(v) = 1 THEN v[1]
    ELSE v[1] \o sep \o join(Tail(v), sep)

\* format!("{}", n) of an unsigned integer
RECURSIVE DecStr(_)
DecStr(n) ==
    IF n < 10 THEN At(DigitChars, n + 1)
    ELSE DecStr(n \div 10) \o At(DigitChars, (n % 10) + 1)

\* value of a non-empty string of digits
RECURSIVE DecVal(_)
DecVal(ds) ==
    IF Len(ds) = 1 THEN IndexIn(ds, DigitChars) - 1
    ELSE 10 * DecVal(SubSeq(ds, 1, Len(ds) - 1)) + (IndexIn(At(ds, Len(ds)), DigitChars) - 1)

\* str::parse::<u64>() of a capture of [0-9]+ ; the numbers of the model stay
\* far below 2^64, where the parse cannot fail
parse_u64(ds) == Some(DecVal(ds))

------------------------------------------------------------------------------
(* Vec<String> *)

\* insertion of s into the sorted v
RECURSIVE InsertSorted(_, _)
InsertSorted(v, s) ==
    IF v = <<>> THEN <<s>>
    ELSE IF LexLess(s, v[1]) THEN <<s>> \o v
    ELSE <<v[1]>> \o InsertSorted(Tail(v), s)

\* Vec<String>::sort
RECURSIVE sort(_)
sort(v) ==
    IF v = <<>> THEN <<>>
    ELSE InsertSorted(sort(SubSeq(v, 1, Len(v) - 1)), v[Len(v)])

\* Vec<String>::dedup : drops consecutive repeats
RECURSIVE dedup(_)
dedup(v) ==
    IF Len(v) <= 1 THEN v
    ELSE IF v[1] = v[2] THEN dedup(Tail(v))
    ELSE <<v[1]>> \o dedup(Tail(v))

\* Vec<u64>::sort followed by reverse
RECURSIVE sort_reverse(_)
sort_reverse(v) ==
    IF v = <<>> THEN <<>>
    ELSE LET m == Max({v[i] : i \in 1..Len(v)})
             k == Min({i \in 1..Len(v) : v[i] = m})
         IN  <<m>> \o sort_reverse(SubSeq(v, 1, k - 1) \o SubSeq(v, k + 1, Len(v)))

SeqContains(v, x) == \E i \in 1..Len(v) : v[i] = x

\* the orders in which the elements of the finite set S can be visited
Orders(S) ==
    {f \in [1..Cardinality(S) -> S] : \A i, j \in 1..Cardinality(S) : f[i] = f[j] => i = j}

------------------------------------------------------------------------------
(* Regex matching.  Every repetition of the program's patterns is a greedy  *)
(* run of a character class that is followed by a character outside the     *)
(* class, so the longest run is the only one that can match; a search takes *)
(* the leftmost start position that matches.                                *)

\* m[i] is the match that starts at position i, or None
Leftmost(m) ==
    LET starts == {i \in DOMAIN m : m[i] # None}
    IN  IF starts = {} THEN None ELSE m[Min(starts)]

\* the common tail " from ([^ ]+) to ([^ ]+)" of the update patterns, at i
FromToAt(s, i) ==
    IF ~StartsAt(s, i, " from ") THEN None
    ELSE LET f0 == i + 6
             f1 == RunEnd(s, f0, {" "})
         IN  IF f1 = f0 \/ ~StartsAt(s, f1, " to ") THEN None
             ELSE LET t0 == f1 + 4
                      t1 == RunEnd(s, t0, {" "})
                  IN  IF t1 = t0 THEN None
                      ELSE Some([from |-> SubSeq(s, f0, f1 - 1),
                                 to   |-> SubSeq(s, t0, t1 - 1)])

WithPkg(pkg, ft) ==
    IF ft = None THEN None
    ELSE Some([pkg |-> pkg, from |-> ft[1].from, to |-> ft[1].to])

\* Updates `([^`]+)` from ([^ ]+) to ([^ ]+)(?: \((#[0-9]+)\))?   at i
UpdateAt(s, i) ==
    IF ~StartsAt(s, i, "Updates '") THEN None
    ELSE LET p0 == i + 9
             p1 == RunEnd(s, p0, {"'"})
         IN  IF p1 = p0 \/ ~StartsAt(s, p1, "'") THEN None
             ELSE WithPkg(SubSeq(s, p0, p1 - 1), FromToAt(s, p1 + 1))

re_update(line) == Leftmost([i \in 1..Len(line) |-> UpdateAt(line, i)])

\* position after "Bumps?" when it matches at i, 0 when it does not
AfterBump(s, i) ==
    IF StartsAt(s, i, "Bumps") THEN i + 5
    ELSE IF StartsAt(s, i, "Bump") THEN i + 4
    ELSE 0

\* Bumps? \[([^\]]+)\]\([^\)]+\) from ([^ ]+) to ([^ ]+)(?: \((#[0-9]+)\))?   at i
BumpLinkAt(s, i) ==
    LET b == AfterBump(s, i)
    IN  IF b = 0 \/ ~StartsAt(s, b, " [") THEN None
        ELSE LET p0 == b + 2
                 p1 == RunEnd(s, p0, {"]"})
             IN  IF p1 = p0 \/ ~StartsAt(s, p1, "](") THEN None
                 ELSE LET u0 == p1 + 2
                          u1 == RunEnd(s, u0, {")"})
                      IN  IF u1 = u0 \/ ~StartsAt(s, u1, ")") THEN None
                          ELSE WithPkg(SubSeq(s, p0, p1 - 1), FromToAt(s, u1 + 1))

re_bump_link(line) == Leftmost([i \in 1..Len(line) |-> BumpLinkAt(line, i)])

\* Bumps? ([^ ]+) from ([^ ]+) to ([^ ]+)(?: \((#[0-9]+)\))?   at i
BumpSimpleAt(s, i) ==
    LET b == AfterBump(s, i)
    IN  IF b = 0 \/ ~StartsAt(s, b, " ") THEN None
        ELSE LET p0 == b + 1
                 p1 == RunEnd(s, p0, {" "})
             IN  IF p1 = p0 THEN None
                 ELSE WithPkg(SubSeq(s, p0, p1 - 1), FromToAt(s, p1))

re_bump_simple(line) == Leftmost([i \in 1..Len(line) |-> BumpSimpleAt(line, i)])

\* \(#([0-9]+)\)   at i : the captured digits
PrTokenAt(s, i) ==
    IF ~StartsAt(s, i, "(#") THEN None
    ELSE LET d0 == i + 2
             d1 == RunEndIn(s, d0, Digits)
         IN  IF d1 = d0 \/ ~StartsAt(s, d1, ")") THEN None
             ELSE Some(SubSeq(s, d0, d1 - 1))

re_pr_number(line) == Leftmost([i \in 1..Len(line) |-> PrTokenAt(line, i)])

------------------------------------------------------------------------------
(* consolidate_dependabot_updates *)

\* the PR number a line carries
line_pr_number(line) ==
    LET caps == re_pr_number(line)
    IN  IF caps = None THEN None ELSE parse_u64(caps[1])

\* the three patterns tried in order, the first that matches wins
parsed(line) ==
    LET u == re_update(line)
        l == re_bump_link(line)
    IN  IF u # None THEN u
        ELSE IF l # None THEN l
        ELSE re_bump_simple(line)

\* chain without its second branch: a fact is only ever put before the range
chain_down_only(entry, from, to) ==
    IF to = entry.from THEN [entry EXCEPT !.from = from]
    ELSE entry

\* chain with its two tests in the other order
chain_up_first(entry, from, to) ==
    IF from = entry.to THEN [entry EXCEPT !.to = to]
    ELSE IF to = entry.from THEN [entry EXCEPT !.from = from]
    ELSE entry

\* "Try to chain": the range of an existing entry after a further fact
chain(entry, from, to) ==
    IF to = entry.from THEN [entry EXCEPT !.from = from]
    ELSE IF from = entry.to THEN [entry EXCEPT !.to = to]
    ELSE entry

\* add_pr without the test for a number that is already there
add_pr_no_dedup(entry, pr) ==
    IF pr # None
    THEN [entry EXCEPT !.pr_numbers = Append(@, pr[1])]
    ELSE entry

\* "Add PR number if present"
add_pr(entry, pr) ==
    IF pr # None /\ ~SeqContains(entry.pr_numbers, pr[1])
    THEN [entry EXCEPT !.pr_numbers = Append(@, pr[1])]
    ELSE entry

\* insert_or_merge that gives an existing entry the range of the new fact
insert_or_merge_replace(pu, p, pr) ==
    IF p.pkg \in DOMAIN pu
    THEN [pu EXCEPT ![p.pkg] = add_pr([@ EXCEPT !.from = p.from, !.to = p.to], pr)]
    ELSE (p.pkg :> [from |-> p.from, to |-> p.to,
                    pr_numbers |-> IF pr = None THEN <<>> ELSE <<pr[1]>>]) @@ pu

\* the map after a parsed fact p with PR number pr
insert_or_merge(pu, p, pr) ==
    IF p.pkg \in DOMAIN pu
    THEN [pu EXCEPT ![p.pkg] = add_pr(chain(@, p.from, p.to), pr)]
    ELSE (p.pkg :> [from |-> p.from, to |-> p.to,
                    pr_numbers |-> IF pr = None THEN <<>> ELSE <<pr[1]>>]) @@ pu

pr_suffix(pr_numbers) ==
    IF pr_numbers # <<>>
    THEN LET sorted_prs == sort_reverse(pr_numbers)
             pr_list == [i \in 1..Len(sorted_prs) |-> "#" \o DecStr(sorted_prs[i])]
         IN  "  (" \o join(pr_list, ", ") \o ")"
    ELSE ""

package_line(pkg, entry) ==
    "- Updates '" \o pkg \o "' from " \o entry.from \o " to " \o entry.to
        \o pr_suffix(entry.pr_numbers)

\* final_lines with the other lines put first
final_lines_other_first(pu, order, ou) ==
    ou \o [i \in 1..Len(order) |-> package_line(order[i], pu[order[i]])]

\* the lines of the map, visited in the given order, then the other lines
final_lines(pu, order, ou) ==
    [i \in 1..Len(order) |-> package_line(order[i], pu[order[i]])] \o ou

------------------------------------------------------------------------------
(* generate_release_notes *)

\* Updates `([^`]+)` from ([^ ]+) to ([^ ]+)
re_update_major(line) == Leftmost([i \in 1..Len(line) |-> UpdateAt(line, i)])

\* s.split('.').next()
first_component(s) == SubSeq(s, 1, RunEnd(s, 1, {"."}) - 1)

U32Max == "4294967295"

\* str::parse::<u32>() : an optional "+", then digits, the value below 2^32.
\* The value is kept as its digits without leading zeros.
parse_u32(s) ==
    LET body == IF starts_with(s, "+") THEN SubSeq(s, 2, Len(s)) ELSE s
        nz   == RunEndIn(body, 1, {"0"})
        sig  == SubSeq(body, nz, Len(body))
    IN  IF body = "" \/ RunEndIn(body, 1, Digits) # Len(body) + 1 THEN None
        ELSE IF Len(sig) > Len(U32Max) THEN None
        ELSE IF Len(sig) = Len(U32Max) /\ LexLess(U32Max, sig) THEN None
        ELSE Some(sig)

\* u32_gt with >= for >
u32_ge(t, f) == t = f \/ Len(t) > Len(f) \/ (Len(t) = Len(f) /\ LexLess(f, t))

\* t > f on parsed values
u32_gt(t, f) == Len(t) > Len(f) \/ (Len(t) = Len(f) /\ LexLess(f, t))

major_change(line) ==
    LET caps == re_update_major(line)
    IN  IF caps = None THEN None
        ELSE LET f == parse_u32(first_component(caps[1].from))
                 t == parse_u32(first_component(caps[1].to))
             IN  IF f # None /\ t # None /\ u32_gt(t[1], f[1])
                 THEN Some(caps[1].pkg \o ": " \o caps[1].from \o " > " \o caps[1].to)
                 ELSE None

RECURSIVE major_changes(_)
major_changes(v) ==
    IF v = <<>> THEN <<>>
    ELSE (IF major_change(v[1]) = None THEN <<>> ELSE <<major_change(v[1])[1]>>)
             \o major_changes(Tail(v))

WarningPrefix == "! WARNING: Major version changes detected: "

DependencyHeader == "## Dependencies updated by dependabot:"

OtherHeader == "## Other changes:"

warning_block(v) ==
    IF major_changes(v) # <<>>
    THEN <<WarningPrefix \o join(sort(major_changes(v)), ", "), "">>
    ELSE <<>>

\* dependency_block with the warning after the header
dependency_block_header_first(v) ==
    <<DependencyHeader, "">> \o warning_block(v) \o sort(v) \o <<"">>

\* dependency_block without the sort of the lines
dependency_block_unsorted(v) ==
    warning_block(v) \o <<DependencyHeader, "">> \o v \o <<"">>

dependency_block(v) ==
    warning_block(v) \o <<DependencyHeader, "">> \o sort(v) \o <<"">>

\* other_block without the dedup
other_block_no_dedup(v) ==
    IF v # <<>> THEN <<OtherHeader>> \o sort(v) ELSE <<>>

other_block(v) ==
    IF v # <<>> THEN <<OtherHeader>> \o dedup(sort(v)) ELSE <<>>

------------------------------------------------------------------------------
(* Inputs *)

\* lines handed to generate_release_notes in one run, both arguments together
MaxLines == 3

SeqsUpTo(S, n) == UNION {[1..k -> S] : k \in 0..n}

\* dependency lines as process_commit_with_pr emits them
DepLines ==
    { "- Updates 'lib' from 1.0 to 2.0",
      "- Updates 'lib' from 2.0 to 1.0 (#12)",
      "- Updates 'lib' from 2.0 to 3.0 (#7)",
      "- Updates 'lib' from 1.0 to 1.0 (#100)",
      "- Bumps [lib](https://x/lib) from 1.0 to 2.0 (#7)",
      "- Bump abc from 1.9 to 10.0 (#3)",
      "- Bump zed from v1 to v2",
      "- Updates 'big' from 4294967295 to 4294967296",
      "- Bump the deps group",
      "- Bump the deps group (#9)" }

OtherLines ==
    { "- B change (User)",
      "- A change (User)",
      "- a change (User)" }

------------------------------------------------------------------------------
(* generate_release_notes(dependabot_updates, other_changes), called with   *)
(* args; consolidate_dependabot_updates runs line by line inside it.        *)

\* main is not running: the function under study is called on its own
NoRun == [include_pr_numbers |-> FALSE, octocrab |-> FALSE, owner |-> "", repo_name |-> ""]

Init ==
    /\ args \in [dependabot_updates : SeqsUpTo(DepLines, MaxLines),
                 other_changes : SeqsUpTo(OtherLines, MaxLines)]
    /\ Len(args.dependabot_updates) + Len(args.other_changes) <= MaxLines
    /\ pc = "generate"
    /\ dependabot_updates = args.dependabot_updates
    /\ other_changes = args.other_changes
    /\ pr_number = None
    /\ calls = <<>>
    /\ responses = <<>>
    /\ result = None
    /\ updates = <<>>
    /\ li = 0
    /\ package_updates = <<>>
    /\ other_updates = <<>>
    /\ final_output_lines = <<>>
    /\ full_output = ""
    /\ commit_ids = <<>>
    /\ oi = 0
    /\ main_args = NoRun
    /\ outcomes = <<>>

\* entry of generate_release_notes, up to the call of the consolidation
GenerateStart ==
    /\ pc = "generate"
    /\ final_output_lines' = <<>>
    /\ IF dependabot_updates # <<>>
       THEN /\ pc' = "consolidate"
            /\ updates' = dependabot_updates
            /\ li' = 1
       ELSE /\ pc' = "other"
            /\ UNCHANGED <<updates, li>>
    /\ package_updates' = <<>>
    /\ other_updates' = <<>>
    /\ UNCHANGED <<main_vars, args, pr_number, calls, responses, result, dependabot_updates, other_changes,
                   full_output>>

\* one iteration of "for line in updates"
ConsolidateLine ==
    /\ pc = "consolidate"
    /\ li <= Len(updates)
    /\ LET line == updates[li]
       IN  IF parsed(line) # None
           THEN /\ package_updates' =
                       insert_or_merge(package_updates, parsed(line)[1],
                                       line_pr_number(line))
                /\ UNCHANGED other_updates
           ELSE /\ other_updates' = Append(other_updates, line)
                /\ UNCHANGED package_updates
    /\ li' = li + 1
    /\ UNCHANGED <<main_vars, pc, args, pr_number, calls, responses, result, dependabot_updates, other_changes,
                   updates, final_output_lines, full_output>>

\* the emission loop over the map, in the map's iteration order, and the
\* return into generate_release_notes
ConsolidateReturn ==
    /\ pc = "consolidate"
    /\ li > Len(updates)
    /\ \E order \in Orders(DOMAIN package_updates) :
           dependabot_updates' = final_lines(package_updates, order, other_updates)
    /\ pc' = "dependencies"
    /\ UNCHANGED <<main_vars, args, pr_number, calls, responses, result, other_changes, updates, li,
                   package_updates, other_updates, final_output_lines, full_output>>

\* major version scan, warning, header and sorted dependency lines
DependencySection ==
    /\ pc = "dependencies"
    /\ final_output_lines' = final_output_lines \o dependency_block(dependabot_updates)
    /\ dependabot_updates' = sort(dependabot_updates)
    /\ pc' = "other"
    /\ UNCHANGED <<main_vars, args, pr_number, calls, responses, result, other_changes, updates, li,
                   package_updates, other_updates, full_output>>

\* other changes block and the join into the returned document
OtherSection ==
    /\ pc = "other"
    /\ other_changes' = IF other_changes # <<>> THEN dedup(sort(other_changes))
                        ELSE other_changes
    /\ final_output_lines' = final_output_lines \o other_block(other_changes)
    /\ full_output' = join(final_output_lines', "\n")
    /\ pc' = "done"
    /\ UNCHANGED <<main_vars, args, pr_number, calls, responses, result, dependabot_updates, updates, li,
                   package_updates, other_updates>>

Next ==
    \/ GenerateStart
    \/ ConsolidateLine
    \/ ConsolidateReturn
    \/ DependencySection
    \/ OtherSection

Spec == Init /\ [][Next]_vars

------------------------------------------------------------------------------
(* Reading the input and the output of the consolidation.  While            *)
(* pc = "dependencies", updates is the argument of                          *)
(* consolidate_dependabot_updates and dependabot_updates its return value.  *)
(* In the definitions below, pin and pout are the two sequences parsed line *)
(* by line.                                                                 *)

ParsedSeq(v) == [i \in 1..Len(v) |-> parsed(v[i])]

PkgsOf(pv) == {pv[i][1].pkg : i \in {j \in 1..Len(pv) : pv[j] # None}}

\* the indices of the lines of package P
LinesOf(pv, P) == {i \in 1..Len(pv) : pv[i] # None /\ pv[i][1].pkg = P}

\* the facts of package P, in order
FactsOf(pv, P) ==
    LET w == SelectSeq(pv, LAMBDA p : p # None /\ p[1].pkg = P)
    IN  [i \in 1..Len(w) |-> w[i][1]]

\* the output holds exactly one line for P, and its range is from -> to
OneLine(pout, P, from, to) ==
    /\ Cardinality(LinesOf(pout, P)) = 1
    /\ \A i \in LinesOf(pout, P) : pout[i][1].from = from /\ pout[i][1].to = to

\* f is two facts a->b then b->c
ChainInOrder(f) == Len(f) = 2 /\ f[1].to = f[2].from

\* f is two facts b->c then a->b
ChainReversed(f) == Len(f) = 2 /\ f[2].to = f[1].from

\* C1 as stated: for every package P and all tokens a, b, c (also c = a), the
\* facts (P: a->b) then (P: b->c) give exactly one line for P, with range a->c.
C1_ChainInOrderAlways ==
    pc = "dependencies" =>
        LET pin == ParsedSeq(updates)
            pout == ParsedSeq(dependabot_updates)
        IN  \A P \in PkgsOf(pin) :
                LET f == FactsOf(pin, P)
                IN  ChainInOrder(f) => OneLine(pout, P, f[1].from, f[2].to)

\* C1 amended: the facts (P: a->b) then (P: b->c) give exactly one line for P;
\* its range is a->c, except when c = a and b # a: then the second fact is
\* taken to precede the first and the range is b->b.
C1_ChainInOrder ==
    pc = "dependencies" =>
        LET pin == ParsedSeq(updates)
            pout == ParsedSeq(dependabot_updates)
        IN  \A P \in PkgsOf(pin) :
                LET f == FactsOf(pin, P)
                IN  ChainInOrder(f) =>
                        IF f[2].to = f[1].from /\ f[1].to # f[1].from
                        THEN OneLine(pout, P, f[1].to, f[1].to)
                        ELSE OneLine(pout, P, f[1].from, f[2].to)

\* a->b then b->c with three different tokens has been consolidated
C1_Witness ==
    /\ pc = "dependencies"
    /\ LET pin == ParsedSeq(updates)
           pout == ParsedSeq(dependabot_updates)
       IN  \E P \in PkgsOf(pin) :
               LET f == FactsOf(pin, P)
               IN  /\ ChainInOrder(f)
                   /\ f[1].from # f[1].to
                   /\ f[2].to \notin {f[1].from, f[1].to}
                   /\ OneLine(pout, P, f[1].from, f[2].to)

\* C2: for every package P and all tokens a, b, c, the facts (P: b->c) then
\* (P: a->b), newest first, give exactly one line for P with range a->c, also
\* when the two lines are written in different accepted formats.
C2_ChainReversed ==
    pc = "dependencies" =>
        LET pin == ParsedSeq(updates)
            pout == ParsedSeq(dependabot_updates)
        IN  \A P \in PkgsOf(pin) :
                LET f == FactsOf(pin, P)
                IN  ChainReversed(f) => OneLine(pout, P, f[2].from, f[1].to)

\* b->c as an "Updates" line then a->b as a "Bumps [pkg](url)" line, consolidated
C2_Witness ==
    /\ pc = "dependencies"
    /\ LET pin == ParsedSeq(updates)
           pout == ParsedSeq(dependabot_updates)
       IN  \E P \in PkgsOf(pin) :
               LET f == FactsOf(pin, P)
               IN  /\ ChainReversed(f)
                   /\ f[2].from # f[1].to
                   /\ \E i, j \in LinesOf(pin, P) :
                          /\ i < j
                          /\ re_update(updates[i]) # None
                          /\ re_update(updates[j]) = None
                          /\ re_bump_link(updates[j]) # None
                   /\ OneLine(pout, P, f[2].from, f[1].to)

\* the numbers written as #N in s, in the order they are written
RECURSIVE HashNumbers(_)
HashNumbers(s) ==
    IF s = "" THEN <<>>
    ELSE LET e == RunEndIn(s, 2, Digits)
         IN  IF At(s, 1) = "#" /\ e > 2
             THEN <<DecVal(SubSeq(s, 2, e - 1))>> \o HashNumbers(SubSeq(s, e, Len(s)))
             ELSE HashNumbers(SubSeq(s, 2, Len(s)))

\* the PR numbers carried by the lines of v with indices in I
CarriedPrs(v, I) ==
    {line_pr_number(v[i])[1] : i \in {j \in I : line_pr_number(v[j]) # None}}

StrictlyDescending(v) == \A i \in 1..(Len(v) - 1) : v[i] > v[i + 1]

\* C3: the PR numbers rendered for a package are exactly the union of the PR
\* numbers carried by all parsed lines of that package, each once, in
\* strictly descending order; the suffix is there iff the union is non-empty.
C3_PrNumbersUnionDescending ==
    pc = "dependencies" =>
        LET pin == ParsedSeq(updates)
            pout == ParsedSeq(dependabot_updates)
        IN  \A P \in PkgsOf(pin) :
                LET carried == CarriedPrs(updates, LinesOf(pin, P))
                IN  \A i \in LinesOf(pout, P) :
                        LET rendered == HashNumbers(dependabot_updates[i])
                        IN  /\ {rendered[k] : k \in 1..Len(rendered)} = carried
                            /\ StrictlyDescending(rendered)
                            /\ contains(dependabot_updates[i], "  (#") <=> carried # {}

\* a package with three lines that carry two PR numbers, one of them twice,
\* has been rendered with two numbers
C3_Witness ==
    /\ pc = "dependencies"
    /\ LET pin == ParsedSeq(updates)
           pout == ParsedSeq(dependabot_updates)
       IN  \E P \in PkgsOf(pin) :
               /\ Cardinality(LinesOf(pin, P)) = 3
               /\ \A i \in LinesOf(pin, P) : line_pr_number(updates[i]) # None
               /\ Cardinality(CarriedPrs(updates, LinesOf(pin, P))) = 2
               /\ \A i \in LinesOf(pout, P) : Len(HashNumbers(dependabot_updates[i])) = 2

\* the lines of v that match no pattern, in order
Unparsed(v) == SelectSeq(v, LAMBDA l : parsed(l) = None)

\* C4: the output is one rendered line per distinct package among the lines
\* that parse, then every line that matches no pattern, verbatim, with its
\* multiplicity and relative order; no line is dropped without contributing.
C4_OneLinePerPackageThenPassthrough ==
    pc = "dependencies" =>
        LET pin == ParsedSeq(updates)
            pout == ParsedSeq(dependabot_updates)
            n == Cardinality(PkgsOf(pin))
            rest == Unparsed(updates)
        IN  /\ Len(dependabot_updates) = n + Len(rest)
            /\ \A P \in PkgsOf(pin) :
                   /\ Cardinality(LinesOf(pout, P)) = 1
                   /\ LinesOf(pout, P) \subseteq 1..n
            /\ SubSeq(dependabot_updates, n + 1, Len(dependabot_updates)) = rest
            /\ \A i \in 1..Len(updates) :
                   IF pin[i] = None
                   THEN \E k \in (n + 1)..Len(dependabot_updates) :
                            dependabot_updates[k] = updates[i]
                   ELSE LinesOf(pout, pin[i][1].pkg) # {}

\* two lines of one package and an unparsed line, consolidated into two lines
C4_Witness ==
    /\ pc = "dependencies"
    /\ Len(updates) = 3
    /\ Cardinality(PkgsOf(ParsedSeq(updates))) = 1
    /\ Len(Unparsed(updates)) = 1
    /\ Len(dependabot_updates) = 2

------------------------------------------------------------------------------
(* Reading the returned document.  While pc = "done", full_output is the    *)
(* value generate_release_notes returned for args.  In the definitions      *)
(* below, dl is the document split into its lines.                          *)

\* position of the first line of dl that starts with prefix, 0 when there is none
PosOf(dl, prefix) ==
    LET at == {i \in 1..Len(dl) : starts_with(dl[i], prefix)}
    IN  IF at = {} THEN 0 ELSE Min(at)

\* the non-empty lines below the dependency header, up to the other header
DepContent(dl) ==
    LET d == PosOf(dl, DependencyHeader)
        o == PosOf(dl, OtherHeader)
    IN  IF d = 0 THEN <<>>
        ELSE SelectSeq(SubSeq(dl, d + 1, IF o > d THEN o - 1 ELSE Len(dl)),
                       LAMBDA l : l # "")

\* the lines below the other changes header
OtherContent(dl) ==
    LET o == PosOf(dl, OtherHeader)
    IN  IF o = 0 THEN <<>> ELSE SubSeq(dl, o + 1, Len(dl))

NoRepeats(v) == \A i, j \in 1..Len(v) : v[i] = v[j] => i = j

Range(v) == {v[i] : i \in 1..Len(v)}

\* C5: within each section of the returned document no content line appears
\* more than once, for any inputs, dependency lines that match no update
\* pattern and are supplied several times included.
C5_NoDuplicateLines ==
    pc = "done" =>
        LET dl == lines(full_output)
        IN  NoRepeats(DepContent(dl)) /\ NoRepeats(OtherContent(dl))

\* C6: the returned document never ends with a line separator, in particular
\* when the dependency lines are non-empty and the other lines are empty.
C6_NoTrailingNewline ==
    pc = "done" =>
        ~(full_output # "" /\ At(full_output, Len(full_output)) = "\n")

\* C7: the document is empty iff both inputs are empty; otherwise it is the
\* warning block (only with a dependency section), then the dependency
\* section, then the other changes section; the dependency header is there
\* iff dependencyLines is non-empty, the other header iff otherLines is.
C7_DocumentLayout ==
    pc = "done" =>
        LET dl == lines(full_output)
            w == PosOf(dl, WarningPrefix)
            d == PosOf(dl, DependencyHeader)
            o == PosOf(dl, OtherHeader)
        IN  /\ full_output = "" <=>
                   (args.dependabot_updates = <<>> /\ args.other_changes = <<>>)
            /\ d # 0 <=> args.dependabot_updates # <<>>
            /\ o # 0 <=> args.other_changes # <<>>
            /\ w # 0 => (w = 1 /\ d = 3)
            /\ (w = 0 /\ d # 0) => d = 1
            /\ (d # 0 /\ o # 0) => d < o
            /\ (d = 0 /\ o # 0) => o = 1
            /\ Range(DepContent(dl)) = Range(dependabot_updates)
            /\ Range(OtherContent(dl)) = Range(args.other_changes)

\* a document with warning block, dependency section and other changes section
C7_Witness ==
    /\ pc = "done"
    /\ LET dl == lines(full_output)
       IN  /\ PosOf(dl, WarningPrefix) = 1
           /\ PosOf(dl, DependencyHeader) = 3
           /\ PosOf(dl, OtherHeader) > 3
           /\ Len(OtherContent(dl)) > 0

\* the pieces of s between the occurrences of sep
RECURSIVE SplitOn(_, _)
SplitOn(s, sep) ==
    LET at == {i \in 1..Len(s) : StartsAt(s, i, sep)}
    IN  IF at = {} THEN <<s>>
        ELSE <<SubSeq(s, 1, Min(at) - 1)>>
                 \o SplitOn(SubSeq(s, Min(at) + Len(sep), Len(s)), sep)

IsDecimal(s) == s # "" /\ \A i \in 1..Len(s) : At(s, i) \in Digits

\* the digits of a decimal numeral from its first non-zero digit on
RECURSIVE Significant(_)
Significant(s) ==
    IF Len(s) > 1 /\ At(s, 1) = "0" THEN Significant(SubSeq(s, 2, Len(s))) ELSE s

\* s is the numeral of a non-negative integer that the program's 32-bit
\* unsigned type holds: digits, optionally after a "+", the value below 2^32
IsMajorNumber(s) ==
    LET ds == IF s # "" /\ At(s, 1) = "+" THEN SubSeq(s, 2, Len(s)) ELSE s
    IN  /\ IsDecimal(ds)
        /\ \/ Len(Significant(ds)) < 10
           \/ Len(Significant(ds)) = 10 /\ ~LexLess("4294967295", Significant(ds))

\* the value of numeral s is below the value of numeral t
NumeralLess(s, t) ==
    LET a == Significant(IF At(s, 1) = "+" THEN SubSeq(s, 2, Len(s)) ELSE s)
        b == Significant(IF At(t, 1) = "+" THEN SubSeq(t, 2, Len(t)) ELSE t)
    IN  Len(a) < Len(b) \/ (Len(a) = Len(b) /\ LexLess(a, b))

\* the leading dot-separated components of from and to both parse as
\* non-negative integers and the one of to is the larger
MajorBump(from, to) ==
    LET f == SplitOn(from, ".")[1]
        t == SplitOn(to, ".")[1]
    IN  IsMajorNumber(f) /\ IsMajorNumber(t) /\ NumeralLess(f, t)

MajorPkgs(pu) == {P \in DOMAIN pu : MajorBump(pu[P].from, pu[P].to)}

Ascending(v) == \A i \in 1..(Len(v) - 1) : LexLess(v[i], v[i + 1])

C9_OtherChangesSortedDistinct ==
    (pc = "done" /\ args.other_changes # <<>>) =>
        LET oc == OtherContent(lines(full_output))
        IN  /\ Range(oc) = Range(args.other_changes)
            /\ Ascending(oc)

\* three other lines, one of them twice, not in ascending order: two are left
C9_Witness ==
    /\ pc = "done"
    /\ Len(args.other_changes) = 3
    /\ Cardinality(Range(args.other_changes)) = 2
    /\ LexLess(args.other_changes[2], args.other_changes[1])
    /\ Len(OtherContent(lines(full_output))) = 2

------------------------------------------------------------------------------
(* process_commit_with_pr *)

\* is_snapshot with a case-sensitive test
is_snapshot_case_sensitive(subject) ==
    contains(subject, "setting new snapshot version")

is_snapshot(subject) ==
    contains(to_lowercase(subject), "setting new snapshot version")

is_dependabot(author) == contains(to_lowercase(author), "dependabot")

\* Merge pull request #([0-9]+)   at i
MergeAt(s, i) ==
    IF ~StartsAt(s, i, "Merge pull request #") THEN None
    ELSE LET d0 == i + 20
             d1 == RunEndIn(s, d0, Digits)
         IN  IF d1 = d0 THEN None ELSE Some(SubSeq(s, d0, d1 - 1))

re_merge(subject) == Leftmost([i \in 1..Len(subject) |-> MergeAt(subject, i)])

\* \(#[0-9]+\) \(   at j
PrTokenParenAt(s, j) ==
    /\ PrTokenAt(s, j) # None
    /\ StartsAt(s, j + Len(PrTokenAt(s, j)[1]) + 3, " (")

\* Bump the.*\(#([0-9]+)\) \(   at i : the greedy .* leaves the last token
BumpTheAt(s, i) ==
    IF ~StartsAt(s, i, "Bump the") THEN None
    ELSE LET at == {j \in (i + 8)..Len(s) : PrTokenParenAt(s, j)}
         IN  IF at = {} THEN None ELSE PrTokenAt(s, Max(at))

re_bump(subject) == Leftmost([i \in 1..Len(subject) |-> BumpTheAt(subject, i)])

re_fallback(subject) == Leftmost([i \in 1..Len(subject) |-> PrTokenAt(subject, i)])

\* extract_pr_number that reads the subject before the supplied number
extract_pr_number_subject_first(pr_from_merge, subject) ==
    IF re_merge(subject) # None THEN parse_u64(re_merge(subject)[1])
    ELSE IF re_bump(subject) # None THEN parse_u64(re_bump(subject)[1])
    ELSE IF re_fallback(subject) # None THEN parse_u64(re_fallback(subject)[1])
    ELSE pr_from_merge

\* "Only try to extract from subject if we don't already have a PR number"
extract_pr_number(pr_from_merge, subject) ==
    IF pr_from_merge # None THEN pr_from_merge
    ELSE IF re_merge(subject) # None THEN parse_u64(re_merge(subject)[1])
    ELSE IF re_bump(subject) # None THEN parse_u64(re_bump(subject)[1])
    ELSE IF re_fallback(subject) # None THEN parse_u64(re_fallback(subject)[1])
    ELSE None

\* the SHA search is sent
search_wanted(a, pr) ==
    pr = None /\ a.owner # "" /\ a.repo # "" /\ a.octocrab

search_request(a) ==
    [call |-> "search", arg |-> "repo:" \o a.owner \o "/" \o a.repo \o " sha:" \o a.hash]

\* pr_number after the answer to the search
search_result(pr, resp) ==
    IF resp.ok /\ resp.items # <<>> /\ resp.items[1].pull_request
    THEN Some(resp.items[1].number)
    ELSE pr

\* "- {clean_line} (#{pr})" or "- {clean_line}"
update_line(line, with_pr, pr) ==
    IF with_pr THEN "- " \o trim(line) \o " (#" \o DecStr(pr[1]) \o ")"
    ELSE "- " \o trim(line)

\* body_update_lines that matches "Updates `" in this case only
RECURSIVE body_update_lines_case_sensitive(_, _, _)
body_update_lines_case_sensitive(v, include_pr, pr) ==
    IF v = <<>> THEN <<>>
    ELSE (IF starts_with(trim(v[1]), "Updates '")
          THEN <<update_line(v[1], include_pr /\ pr # None, pr)>>
          ELSE <<>>) \o body_update_lines_case_sensitive(Tail(v), include_pr, pr)

\* the update lines of the commit body
RECURSIVE body_update_lines(_, _, _)
body_update_lines(v, include_pr, pr) ==
    IF v = <<>> THEN <<>>
    ELSE (IF starts_with(trim(to_lowercase(v[1])), "updates '")
          THEN <<update_line(v[1], include_pr /\ pr # None, pr)>>
          ELSE <<>>) \o body_update_lines(Tail(v), include_pr, pr)

\* the PR description is fetched
fetch_wanted(a, pr) ==
    pr # None /\ a.octocrab /\ a.owner # "" /\ a.repo # ""

fetch_request(pr) == [call |-> "get", arg |-> DecStr(pr[1])]

\* the update lines of the fetched PR description
RECURSIVE pr_update_lines(_, _, _)
pr_update_lines(v, include_pr, pr) ==
    IF v = <<>> THEN <<>>
    ELSE (IF \/ starts_with(v[1], "|")
             \/ contains(v[1], "|---")
             \/ contains(v[1], "Bumps the")
          THEN <<>>
          ELSE IF starts_with(trim_start(to_lowercase(v[1])), "updates '")
          THEN <<update_line(v[1], include_pr, pr)>>
          ELSE <<>>) \o pr_update_lines(Tail(v), include_pr, pr)

\* update_lines_vec after the answer to the fetch
fetched_lines(resp, include_pr, pr) ==
    IF resp.ok /\ resp.body # None
    THEN pr_update_lines(lines(resp.body[1]), include_pr, pr)
    ELSE <<>>

\*  \(#[0-9]+\)   at i : the position after the match, 0 when there is none
PrRemoveAt(s, i) ==
    IF StartsAt(s, i, " ") /\ PrTokenAt(s, i + 1) # None
    THEN i + Len(PrTokenAt(s, i + 1)[1]) + 4
    ELSE 0

\* replace_all_pr that replaces the first match only
replace_first_pr(s) ==
    LET at == {i \in 1..Len(s) : PrRemoveAt(s, i) # 0}
    IN  IF at = {} THEN s
        ELSE SubSeq(s, 1, Min(at) - 1) \o SubSeq(s, PrRemoveAt(s, Min(at)), Len(s))

\* re_pr_remove.replace_all(subject, "")
RECURSIVE replace_all_pr(_)
replace_all_pr(s) ==
    LET at == {i \in 1..Len(s) : PrRemoveAt(s, i) # 0}
    IN  IF at = {} THEN s
        ELSE SubSeq(s, 1, Min(at) - 1)
                 \o replace_all_pr(SubSeq(s, PrRemoveAt(s, Min(at)), Len(s)))

\* cleaned_subject that looks for the token "(#n)" with its parentheses
cleaned_subject_exact_token(subject, include_pr, pr) ==
    IF ~include_pr THEN replace_all_pr(subject)
    ELSE IF pr # None /\ ~contains(subject, "(#" \o DecStr(pr[1]) \o ")")
         THEN trim(subject) \o " (#" \o DecStr(pr[1]) \o ")"
         ELSE subject

cleaned_subject(subject, include_pr, pr) ==
    IF ~include_pr THEN replace_all_pr(subject)
    ELSE IF pr # None /\ ~contains(subject, "#" \o DecStr(pr[1]))
         THEN trim(subject) \o " (#" \o DecStr(pr[1]) \o ")"
         ELSE subject

Dependabot(v) == Some([tag |-> "Dependabot", lines |-> v])

Other(s) == Some([tag |-> "Other", lines |-> <<s>>])

\* "Fallback or no update lines logic"
fallback(a, pr) ==
    IF is_dependabot(a.author)
    THEN Dependabot(<<"- " \o cleaned_subject(a.subject, a.include_pr, pr)>>)
    ELSE Other("- " \o cleaned_subject(a.subject, a.include_pr, pr)
                   \o " (" \o a.author \o ")")

------------------------------------------------------------------------------
(* One call of process_commit_with_pr with args, in steps that end where    *)
(* the call waits for the GitHub API or returns.                            *)

Subjects ==
    { "Setting new snapshot version 1.0",
      "chore: SETTING NEW SNAPSHOT VERSION (#5)",
      "Fix bug (#123)",
      "Fix bug",
      "Merge pull request #123 from foo",
      "Bump the deps group (#12) (#34)",
      "Bump the (#1) deps (#12) (#34)",
      "Merge pull request #5 (#6)",
      "Tidy up ",
      "Bump package (#12)" }

Bodies ==
    { "",
      "Bumps [package]...\nUpdates 'package' from 1.0 to 1.1\n...",
      "  updates 'b' from 1 to 2\nnotes\nUpdates 'a' from 2 to 3 (#12)" }

Authors == {"User", "dependabot[bot]"}

Repos == {<<"o", "r">>, <<"o", "">>, <<"", "">>}

PrHints == {None, Some(12)}

SearchResponses ==
    { [ok |-> FALSE, items |-> <<>>],
      [ok |-> TRUE, items |-> <<>>],
      [ok |-> TRUE, items |-> <<[number |-> 7, pull_request |-> TRUE]>>],
      [ok |-> TRUE, items |-> <<[number |-> 8, pull_request |-> FALSE],
                                [number |-> 7, pull_request |-> TRUE]>>] }

FetchResponses ==
    { [ok |-> FALSE, body |-> None],
      [ok |-> TRUE, body |-> None],
      [ok |-> TRUE, body |-> Some("Bumps the deps group.\n| a | b |\n  Updates 'x' from 1 to 2")],
      [ok |-> TRUE, body |-> Some("Updates 'y' from 2 to 3 (#12)")],
      [ok |-> TRUE, body |-> Some("No notes")] }

InitClassify ==
    /\ \E s \in Subjects, b \in Bodies, au \in Authors, r \in Repos,
          h \in PrHints, ip \in BOOLEAN, oc \in BOOLEAN :
           args = [subject |-> s, body |-> b, hash |-> "sha", author |-> au,
                   include_pr |-> ip, pr_from_merge |-> h, octocrab |-> oc,
                   owner |-> r[1], repo |-> r[2]]
    /\ pc = "classify"
    /\ pr_number = None
    /\ calls = <<>>
    /\ responses = <<>>
    /\ result = None
    /\ dependabot_updates = <<>>
    /\ other_changes = <<>>
    /\ updates = <<>>
    /\ li = 0
    /\ package_updates = <<>>
    /\ other_updates = <<>>
    /\ final_output_lines = <<>>
    /\ full_output = ""
    /\ commit_ids = <<>>
    /\ oi = 0
    /\ main_args = NoRun
    /\ outcomes = <<>>

notes_vars == <<dependabot_updates, other_changes, updates, li, package_updates,
                other_updates, final_output_lines, full_output>>

\* from the entry to the SHA search, or past it when it is not sent
ClassifyStart ==
    /\ pc = "classify"
    /\ IF is_snapshot(args.subject)
       THEN /\ result' = None
            /\ pc' = "classified"
            /\ UNCHANGED <<pr_number, calls>>
       ELSE /\ pr_number' = extract_pr_number(args.pr_from_merge, args.subject)
            /\ IF search_wanted(args, pr_number')
               THEN /\ calls' = Append(calls, search_request(args))
                    /\ pc' = "search"
               ELSE /\ pc' = "body"
                    /\ UNCHANGED calls
            /\ UNCHANGED result
    /\ UNCHANGED <<main_vars, args, responses, notes_vars>>

\* the search answers
SearchReturns ==
    /\ pc = "search"
    /\ \E resp \in SearchResponses :
           /\ responses' = Append(responses, resp)
           /\ pr_number' = search_result(pr_number, resp)
    /\ pc' = "body"
    /\ UNCHANGED <<main_vars, args, calls, result, notes_vars>>

\* the scan of the commit body, up to the fetch of the PR description, or to
\* the return when it is not sent
ScanBody ==
    /\ pc = "body"
    /\ LET update_lines == body_update_lines(lines(args.body), args.include_pr, pr_number)
       IN  IF is_dependabot(args.author) /\ update_lines # <<>>
           THEN /\ result' = Dependabot(update_lines)
                /\ pc' = "classified"
                /\ UNCHANGED calls
           ELSE IF fetch_wanted(args, pr_number)
           THEN /\ calls' = Append(calls, fetch_request(pr_number))
                /\ pc' = "fetch"
                /\ UNCHANGED result
           ELSE /\ result' = fallback(args, pr_number)
                /\ pc' = "classified"
                /\ UNCHANGED calls
    /\ UNCHANGED <<main_vars, args, pr_number, responses, notes_vars>>

\* FetchReturns that skips the commit when the fetch fails
FetchReturns_skip_on_error ==
    /\ pc = "fetch"
    /\ \E resp \in FetchResponses :
           /\ responses' = Append(responses, resp)
           /\ LET update_lines_vec == fetched_lines(resp, args.include_pr, pr_number)
              IN  result' = IF ~resp.ok THEN None
                            ELSE IF update_lines_vec # <<>>
                            THEN Dependabot(update_lines_vec)
                            ELSE fallback(args, pr_number)
    /\ pc' = "classified"
    /\ UNCHANGED <<main_vars, args, pr_number, calls, notes_vars>>

\* the fetch answers, up to the return
FetchReturns ==
    /\ pc = "fetch"
    /\ \E resp \in FetchResponses :
           /\ responses' = Append(responses, resp)
           /\ LET update_lines_vec == fetched_lines(resp, args.include_pr, pr_number)
              IN  result' = IF update_lines_vec # <<>>
                            THEN Dependabot(update_lines_vec)
                            ELSE fallback(args, pr_number)
    /\ pc' = "classified"
    /\ UNCHANGED <<main_vars, args, pr_number, calls, notes_vars>>

NextClassify ==
    \/ ClassifyStart
    \/ SearchReturns
    \/ ScanBody
    \/ FetchReturns

SpecClassify == InitClassify /\ [][NextClassify]_vars

------------------------------------------------------------------------------
(* Reading a classification.  While pc = "classified", result is the value  *)
(* process_commit_with_pr returned for args, and calls the requests it sent.*)

\* s holds text, whatever the case of its letters
ContainsIgnoringCase(s, text) ==
    \E i \in 1..(Len(s) - Len(text) + 1) :
        \A k \in 1..Len(text) : LowerChar(At(s, i + k - 1)) = LowerChar(At(text, k))

\* C10: a commit whose subject contains "setting new snapshot version",
\* case-insensitively, is skipped (None) whatever its author, body,
\* includePrNumbers, prHint and lookup capability, and no request is sent to
\* the network before that is decided.
C10_SnapshotSkipped ==
    ContainsIgnoringCase(args.subject, "setting new snapshot version") =>
        /\ calls = <<>>
        /\ pc \in {"classify", "classified"}
        /\ pc = "classified" => result = None

\* a dependabot commit with update lines in its body, a PR hint, a client and a
\* repository, its subject holding the text in capitals, has been skipped
C10_Witness ==
    /\ pc = "classified"
    /\ ContainsIgnoringCase(args.subject, "setting new snapshot version")
    /\ ~contains(args.subject, "setting new snapshot version")
    /\ contains(args.author, "dependabot")
    /\ contains(args.body, "Updates '")
    /\ args.include_pr
    /\ args.pr_from_merge # None
    /\ args.octocrab
    /\ args.owner # ""
    /\ result = None

------------------------------------------------------------------------------
(* Which return of process_commit_with_pr was taken, read from the          *)
(* arguments and the answers received.                                      *)

\* s starts with text, whatever the case of its letters
StartsIgnoringCase(s, text) ==
    /\ Len(s) >= Len(text)
    /\ \A k \in 1..Len(text) : LowerChar(At(s, k)) = LowerChar(At(text, k))

IsUpdateLine(l) == StartsIgnoringCase(trim(l), "updates '")

\* the lines of text that start, trimmed, with "updates `"
MatchingLines(text) == SelectSeq(lines(text), LAMBDA l : IsUpdateLine(l))

\* the lines of a PR description that are not skipped and start with "updates `"
MatchingPrLines(text) ==
    SelectSeq(lines(text),
              LAMBDA l : /\ IsUpdateLine(l)
                         /\ At(l, 1) # "|"
                         /\ ~contains(l, "|---")
                         /\ ~contains(l, "Bumps the"))

IsSnapshot(a) == ContainsIgnoringCase(a.subject, "setting new snapshot version")

IsDependency(a) == ContainsIgnoringCase(a.author, "dependabot")

\* the call returned the update lines of the commit body
TookBody == pc = "classified" /\ ~IsSnapshot(args) /\ IsDependency(args)
                /\ MatchingLines(args.body) # <<>>

\* the fetch of the PR description was answered
FetchAnswered ==
    /\ calls # <<>>
    /\ calls[Len(calls)].call = "get"
    /\ Len(responses) = Len(calls)

\* the call returned the update lines of the fetched PR description
TookFetch ==
    /\ pc = "classified"
    /\ FetchAnswered
    /\ responses[Len(responses)].ok
    /\ responses[Len(responses)].body # None
    /\ MatchingPrLines(responses[Len(responses)].body[1]) # <<>>

\* the call returned the subject fallback (step 6)
TookFallback == pc = "classified" /\ ~IsSnapshot(args) /\ ~TookBody /\ ~TookFetch

\* the line the fallback returns for the cleaned subject c
FallbackLine(a, c) ==
    IF IsDependency(a) THEN "- " \o c ELSE "- " \o c \o " (" \o a.author \o ")"

\* s is " (#N)" for some digits N
IsPrToken(s) ==
    /\ Len(s) >= 5
    /\ SubSeq(s, 1, 3) = " (#"
    /\ At(s, Len(s)) = ")"
    /\ \A i \in 4..(Len(s) - 1) : At(s, i) \in Digits

\* s without a " (#N)" at its end
StripTrailing(s) ==
    LET cut == {i \in 1..Len(s) : IsPrToken(SubSeq(s, i, Len(s)))}
    IN  IF cut = {} THEN s ELSE SubSeq(s, 1, Min(cut) - 1)

\* s without any of its " (#N)", read from left to right
RECURSIVE StripEvery(_)
StripEvery(s) ==
    IF s = "" THEN ""
    ELSE LET ends == {j \in 1..Len(s) : IsPrToken(SubSeq(s, 1, j))}
         IN  IF ends # {} THEN StripEvery(SubSeq(s, Min(ends) + 1, Len(s)))
             ELSE At(s, 1) \o StripEvery(SubSeq(s, 2, Len(s)))

\* C11 as stated: in the subject fallback with includePrNumbers = false the
\* cleaned subject is the subject with a trailing " (#N)" stripped and nothing
\* else altered: a " (#N)" that is not at the end stays, no number is appended.
C11_StripsTrailingTokenOnly ==
    (TookFallback /\ ~args.include_pr) =>
        result[1].lines = <<FallbackLine(args, StripTrailing(args.subject))>>

\* C11 amended: in the subject fallback with includePrNumbers = false the
\* cleaned subject is the subject with every " (#N)" removed, wherever it
\* occurs, and nothing else altered; no resolved PR number is appended.
C11_StripsEveryToken ==
    (TookFallback /\ ~args.include_pr) =>
        result[1].lines = <<FallbackLine(args, StripEvery(args.subject))>>

\* a subject with a " (#N)" inside and one at its end has gone through the
\* fallback with includePrNumbers = false, a PR number resolved
C11_Witness ==
    /\ TookFallback
    /\ ~args.include_pr
    /\ pr_number # None
    /\ StripTrailing(args.subject) # args.subject
    /\ StripEvery(args.subject) # StripTrailing(args.subject)
    /\ result[1].lines = <<FallbackLine(args, StripEvery(args.subject))>>

\* text occurs somewhere in s
Occurs(s, text) ==
    \E i \in 1..(Len(s) - Len(text) + 1) : SubSeq(s, i, i + Len(text) - 1) = text

\* the decimal numeral of n
RECURSIVE Numeral(_)
Numeral(n) ==
    IF n < 10 THEN SubSeq("0123456789", n + 1, n + 1)
    ELSE Numeral(n \div 10) \o SubSeq("0123456789", (n % 10) + 1, (n % 10) + 1)

ExpectedUpdateLine(l, wanted, pr) ==
    "- " \o trim(l) \o
        (IF wanted /\ pr # None /\ ~Occurs(l, "(#" \o Numeral(pr[1]) \o ")")
         THEN " (#" \o Numeral(pr[1]) \o ")"
         ELSE "")

ExpectedUpdateLines(ls, wanted, pr) ==
    [i \in 1..Len(ls) |-> ExpectedUpdateLine(ls[i], wanted, pr)]

\* C13: every line emitted from the "updates `" lines of a dependabot commit's
\* body is "- " and the trimmed body line, followed by " (#n)" exactly when
\* includePrNumbers is true, a number n was resolved and "(#n)" is not already
\* in that line; the lines taken from a fetched PR description follow the
\* same policy.
C13_SuffixUnlessPresent ==
    /\ TookBody =>
           result[1].lines =
               ExpectedUpdateLines(MatchingLines(args.body), args.include_pr, pr_number)
    /\ TookFetch =>
           result[1].lines =
               ExpectedUpdateLines(MatchingPrLines(responses[Len(responses)].body[1]),
                                   args.include_pr, pr_number)

\* the characters i..j of s that exist
Slice(s, i, j) == SubSeq(s, i, Min({j, Len(s)}))

\* the longest run of digits of s that starts at i
DigitRun(s, i) ==
    LET stop == {j \in i..(Len(s) + 1) : j > Len(s) \/ At(s, j) \notin Digits}
    IN  Slice(s, i, Min(stop) - 1)

\* the number a string of digits denotes
RECURSIVE NumberOf(_)
NumberOf(d) ==
    IF d = "" THEN 0
    ELSE 10 * NumberOf(SubSeq(d, 1, Len(d) - 1))
         + (CHOOSE v \in 0..9 : Numeral(v) = SubSeq(d, Len(d), Len(d)))

\* the digits N of a "(#N)" that starts at j, "" when there is none
ParenTokenDigits(s, j) ==
    IF Slice(s, j, j + 1) = "(#"
       /\ DigitRun(s, j + 2) # ""
       /\ Slice(s, j + 2 + Len(DigitRun(s, j + 2)), j + 2 + Len(DigitRun(s, j + 2))) = ")"
    THEN DigitRun(s, j + 2)
    ELSE ""

\* N of the first "Merge pull request #N"
MergeNumber(s) ==
    LET lead == "Merge pull request #"
        at == {i \in 1..Len(s) : /\ Slice(s, i, i + Len(lead) - 1) = lead
                                 /\ DigitRun(s, i + Len(lead)) # ""}
    IN  IF at = {} THEN None ELSE Some(NumberOf(DigitRun(s, Min(at) + Len(lead))))

\* N of the last "(#N) (" that follows the first "Bump the" having one
BumpNumber(s) ==
    LET lead == "Bump the"
        tokens(i) == {j \in (i + Len(lead))..Len(s) :
                         /\ ParenTokenDigits(s, j) # ""
                         /\ Slice(s, j + Len(ParenTokenDigits(s, j)) + 3,
                                  j + Len(ParenTokenDigits(s, j)) + 4) = " ("}
        at == {i \in 1..Len(s) : /\ Slice(s, i, i + Len(lead) - 1) = lead
                                 /\ tokens(i) # {}}
    IN  IF at = {} THEN None
        ELSE Some(NumberOf(ParenTokenDigits(s, Max(tokens(Min(at))))))

\* N of the first "(#N)"
FirstTokenNumber(s) ==
    LET at == {j \in 1..Len(s) : ParenTokenDigits(s, j) # ""}
    IN  IF at = {} THEN None ELSE Some(NumberOf(ParenTokenDigits(s, Min(at))))

\* the number resolved without the network, by strict precedence
LocalNumber(a) ==
    IF a.pr_from_merge # None THEN a.pr_from_merge
    ELSE IF MergeNumber(a.subject) # None THEN MergeNumber(a.subject)
    ELSE IF BumpNumber(a.subject) # None THEN BumpNumber(a.subject)
    ELSE FirstTokenNumber(a.subject)

SearchCalls == {k \in 1..Len(calls) : calls[k].call = "search"}

\* the number the answer to the search gives: that of the first result, when
\* there is one and it is a PR
SearchedNumber(resp) ==
    IF resp.ok /\ Len(resp.items) > 0 /\ resp.items[1].pull_request
    THEN Some(resp.items[1].number)
    ELSE None

\* C14: the PR number is resolved by strict precedence, stopping at the first
\* success: the supplied hint; else "Merge pull request #N"; else the
\* "Bump the ... (#N) (" pattern; else the first "(#N)" of the subject. The
\* SHA search is sent only when all of these gave nothing, the lookup
\* capability is present and owner and repo are both non-empty; its answer is
\* used only when the first search result is a PR.
C14_ResolutionPrecedence ==
    /\ IsSnapshot(args) => calls = <<>>
    /\ (pc # "classify" /\ ~IsSnapshot(args)) =>
          /\ SearchCalls # {} <=>
                 (LocalNumber(args) = None /\ args.octocrab
                  /\ args.owner # "" /\ args.repo # "")
          /\ SearchCalls \subseteq {1}
          /\ pc = "search" => pr_number = None
          /\ pc \in {"body", "fetch", "classified"} =>
                 pr_number = IF LocalNumber(args) # None THEN LocalNumber(args)
                             ELSE IF SearchCalls # {} THEN SearchedNumber(responses[1])
                             ELSE None

\* a supplied number has won over a different number in the subject
C14_Witness ==
    /\ pc = "classified"
    /\ ~IsSnapshot(args)
    /\ args.pr_from_merge # None
    /\ FirstTokenNumber(args.subject) # None
    /\ FirstTokenNumber(args.subject) # args.pr_from_merge
    /\ pr_number = args.pr_from_merge
    /\ SearchCalls = {}

\* the k-th request failed or was answered with nothing
Failed(k) ==
    \/ ~responses[k].ok
    \/ calls[k].call = "search" /\ responses[k].items = <<>>
    \/ calls[k].call = "get" /\ responses[k].body = None

\* what a call without lookup capability returns for a
NoLookupOutcome(a) ==
    LET n == LocalNumber(a)
        tagged(ls) == <<[tag |-> IF IsDependency(a) THEN "Dependabot" ELSE "Other",
                         lines |-> ls]>>
        suffix == IF a.include_pr /\ n # None
                  THEN " (#" \o Numeral(n[1]) \o ")" ELSE ""
        found == MatchingLines(a.body)
        cleaned == IF ~a.include_pr THEN StripEvery(a.subject)
                   ELSE IF n # None /\ ~Occurs(a.subject, "#" \o Numeral(n[1]))
                        THEN trim(a.subject) \o suffix
                        ELSE a.subject
    IN  IF IsSnapshot(a) THEN None
        ELSE IF IsDependency(a) /\ found # <<>>
             THEN tagged([i \in 1..Len(found) |-> "- " \o trim(found[i]) \o suffix])
             ELSE tagged(<<FallbackLine(a, cleaned)>>)

\* C15: lookup failures are never surfaced: a classification whose lookup
\* calls all fail, or return nothing, returns the same outcome as a
\* classification without lookup capability, never an error, and each call
\* is attempted at most once.
C15_LookupFailuresSwallowed ==
    /\ \A j, k \in 1..Len(calls) : calls[j].call = calls[k].call => j = k
    /\ Len(responses) <= Len(calls)
    /\ (pc = "classified" /\ \A k \in 1..Len(responses) : Failed(k)) =>
           result = NoLookupOutcome(args)

\* a fetch of the PR description has failed and the subject fallback was
\* returned all the same
C15_Witness ==
    /\ pc = "classified"
    /\ args.octocrab
    /\ Len(responses) = 1
    /\ calls[1].call = "get"
    /\ ~responses[1].ok
    /\ result # None
    /\ result = NoLookupOutcome(args)

------------------------------------------------------------------------------
(* main: the walk over the commits, one process_commit at a time, and the   *)
(* call of generate_release_notes on what was collected.                    *)

MaxCommits == 2

\* the commits the walk can meet: subject, body and author name
Commits ==
    { [subject |-> "Bump package (#12)",
       body |-> "Bumps [package]...\nUpdates 'package' from 1.0 to 1.1\n...",
       author |-> "dependabot[bot]"],
      [subject |-> "Bump the deps group (#12) (#34)",
       body |-> "  updates 'b' from 1 to 2\nnotes\nUpdates 'a' from 2 to 3 (#12)",
       author |-> "dependabot[bot]"],
      [subject |-> "Fix bug", body |-> "", author |-> "User"],
      [subject |-> "Setting new snapshot version 1.0", body |-> "", author |-> "User"] }

\* owner and repo_name come both from the remote URL, or are both empty
MainRepos == {<<"o", "r">>, <<"", "">>}

\* oid.to_string() of the i-th commit of the walk
hash_of(i) == "sha" \o DecStr(i)

\* the arguments process_commit passes on for the i-th commit
process_commit_args(i) ==
    [subject |-> commit_ids[i].subject, body |-> commit_ids[i].body,
     hash |-> hash_of(i), author |-> commit_ids[i].author,
     include_pr |-> main_args.include_pr_numbers, pr_from_merge |-> None,
     octocrab |-> main_args.octocrab, owner |-> main_args.owner,
     repo |-> main_args.repo_name]

InitMain ==
    /\ commit_ids \in SeqsUpTo(Commits, MaxCommits)
    /\ \E ip \in BOOLEAN, oc \in BOOLEAN, r \in MainRepos :
           main_args = [include_pr_numbers |-> ip, octocrab |-> oc,
                        owner |-> r[1], repo_name |-> r[2]]
    /\ oi = 1
    /\ outcomes = <<>>
    /\ pc = "walk"
    /\ args = <<>>
    /\ pr_number = None
    /\ calls = <<>>
    /\ responses = <<>>
    /\ result = None
    /\ dependabot_updates = <<>>
    /\ other_changes = <<>>
    /\ updates = <<>>
    /\ li = 0
    /\ package_updates = <<>>
    /\ other_updates = <<>>
    /\ final_output_lines = <<>>
    /\ full_output = ""

\* head of "for oid in commit_ids", up to the call of process_commit
LoopNext ==
    /\ pc = "walk"
    /\ oi <= Len(commit_ids)
    /\ args' = process_commit_args(oi)
    /\ pr_number' = None
    /\ calls' = <<>>
    /\ responses' = <<>>
    /\ result' = None
    /\ pc' = "classify"
    /\ UNCHANGED <<main_vars, notes_vars>>

\* the commit cannot be read: "?" leaves main with the error
LoopError ==
    /\ pc = "walk"
    /\ oi <= Len(commit_ids)
    /\ pc' = "error"
    /\ UNCHANGED <<main_vars, args, pr_number, calls, responses, result, notes_vars>>

\* Collect that puts the lines of a commit before those collected so far
Collect_prepend ==
    /\ pc = "classified"
    /\ oi >= 1
    /\ IF result = None
       THEN UNCHANGED <<dependabot_updates, other_changes>>
       ELSE IF result[1].tag = "Dependabot"
       THEN /\ dependabot_updates' = result[1].lines \o dependabot_updates
            /\ UNCHANGED other_changes
       ELSE /\ other_changes' = result[1].lines \o other_changes
            /\ UNCHANGED dependabot_updates
    /\ outcomes' = Append(outcomes, result)
    /\ oi' = oi + 1
    /\ pc' = "walk"
    /\ UNCHANGED <<commit_ids, main_args, args, pr_number, calls, responses, result,
                   updates, li, package_updates, other_updates, final_output_lines,
                   full_output>>

\* "if let Some(res) = result { match res { .. } }", to the head of the loop
Collect ==
    /\ pc = "classified"
    /\ oi >= 1
    /\ IF result = None
       THEN UNCHANGED <<dependabot_updates, other_changes>>
       ELSE IF result[1].tag = "Dependabot"
       THEN /\ dependabot_updates' = dependabot_updates \o result[1].lines
            /\ UNCHANGED other_changes
       ELSE /\ other_changes' = Append(other_changes, result[1].lines[1])
            /\ UNCHANGED dependabot_updates
    /\ outcomes' = Append(outcomes, result)
    /\ oi' = oi + 1
    /\ pc' = "walk"
    /\ UNCHANGED <<commit_ids, main_args, args, pr_number, calls, responses, result,
                   updates, li, package_updates, other_updates, final_output_lines,
                   full_output>>

\* after the loop: generate_release_notes(dependabot_updates, other_changes)
CallGenerate ==
    /\ pc = "walk"
    /\ oi > Len(commit_ids)
    /\ args' = [dependabot_updates |-> dependabot_updates,
                other_changes |-> other_changes]
    /\ pc' = "generate"
    /\ UNCHANGED <<main_vars, pr_number, calls, responses, result, notes_vars>>

NextMain ==
    \/ LoopNext
    \/ LoopError
    \/ ClassifyStart
    \/ SearchReturns
    \/ ScanBody
    \/ FetchReturns
    \/ Collect
    \/ CallGenerate
    \/ GenerateStart
    \/ ConsolidateLine
    \/ ConsolidateReturn
    \/ DependencySection
    \/ OtherSection

SpecMain == InitMain /\ [][NextMain]_vars

\* the dependency lines of the outcomes os, one outcome after the other
RECURSIVE DependencyLinesOf(_)
DependencyLinesOf(os) ==
    IF os = <<>> THEN <<>>
    ELSE DependencyLinesOf(SubSeq(os, 1, Len(os) - 1))
         \o (IF os[Len(os)] # None /\ os[Len(os)][1].tag = "Dependabot"
             THEN os[Len(os)][1].lines ELSE <<>>)

\* C16: the sequence of dependency lines handed to generate_release_notes is
\* the concatenation of the lines each commit emitted, in commit traversal
\* order: for commits i before j, every line of i precedes every line of j,
\* whatever the answers and the order of completion of the lookups.
C16_DependencyLinesInWalkOrder ==
    /\ pc \in {"walk", "classify", "search", "body", "fetch", "classified"} =>
           /\ Len(outcomes) = oi - 1
           /\ dependabot_updates = DependencyLinesOf(outcomes)
    /\ pc = "generate" =>
           /\ Len(outcomes) = Len(commit_ids)
           /\ args.dependabot_updates = DependencyLinesOf(outcomes)
    /\ ~main_args.octocrab =>
           \A i \in 1..Len(outcomes) : outcomes[i] = NoLookupOutcome(process_commit_args(i))

\* two commits that emitted different dependency lines have been walked and
\* their lines handed to generate_release_notes
C16_Witness ==
    /\ pc = "generate"
    /\ Len(outcomes) = 2
    /\ outcomes[1] # None /\ outcomes[1][1].tag = "Dependabot"
    /\ outcomes[2] # None /\ outcomes[2][1].tag = "Dependabot"
    /\ outcomes[1][1].lines # outcomes[2][1].lines
    /\ args.dependabot_updates = outcomes[1][1].lines \o outcomes[2][1].lines

GetCalls == {k \in 1..Len(calls) : calls[k].call = "get"}

\* the outcome is a dependency update with one line for each of ls, in order
OneLinePerBodyLine(ls) ==
    /\ result # None
    /\ result[1].tag = "Dependabot"
    /\ Len(result[1].lines) = Len(ls)
    /\ \A i \in 1..Len(ls) :
           Slice(result[1].lines[i], 1, 2 + Len(trim(ls[i]))) = "- " \o trim(ls[i])

\* C17 as stated: for a commit whose author contains "dependabot" and whose
\* body has at least one line starting, trimmed and whatever the case, with
\* "updates `", the outcome is a dependency update with exactly one line per
\* matching body line, in body order, and the fetch of the PR description is
\* never issued.
C17_BodyLinesAlwaysWin ==
    (IsDependency(args) /\ MatchingLines(args.body) # <<>>) =>
        /\ GetCalls = {}
        /\ pc = "classified" => OneLinePerBodyLine(MatchingLines(args.body))

\* C17 amended: the same, for a commit whose subject does not contain
\* "setting new snapshot version" (whatever the case): a snapshot commit is
\* skipped before its body is read.
C17_BodyLinesWinUnlessSnapshot ==
    (IsDependency(args) /\ MatchingLines(args.body) # <<>>) =>
        /\ GetCalls = {}
        /\ (pc = "classified" /\ ~IsSnapshot(args)) =>
               OneLinePerBodyLine(MatchingLines(args.body))

\* a dependabot commit with two update lines in its body was classified with
\* a resolved number and the means to fetch, and no fetch was sent
C17_Witness ==
    /\ pc = "classified"
    /\ IsDependency(args)
    /\ ~IsSnapshot(args)
    /\ Len(MatchingLines(args.body)) = 2
    /\ args.octocrab /\ args.owner # "" /\ args.repo # ""
    /\ pr_number # None
    /\ OneLinePerBodyLine(MatchingLines(args.body))
    /\ GetCalls = {}

------------------------------------------------------------------------------
(* The consolidation step by step (under Spec).                             *)

\* the next line of the consolidation is a fact for a package that has an
\* entry, and chains with neither end of its range
NonChainingFactNext ==
    /\ pc = "consolidate"
    /\ li <= Len(updates)
    /\ parsed(updates[li]) # None
    /\ LET f == parsed(updates[li])[1]
       IN  /\ f.pkg \in DOMAIN package_updates
           /\ f.to # package_updates[f.pkg].from
           /\ f.from # package_updates[f.pkg].to

\* the step leaves the range of the entry, the other entries and the
\* passthrough list as they were, and adds at most the new PR number
FrameOfNonChainingFact ==
    LET f == parsed(updates[li])[1]
        pr == line_pr_number(updates[li])
        before == package_updates[f.pkg]
        after == package_updates'[f.pkg]
    IN  /\ DOMAIN package_updates' = DOMAIN package_updates
        /\ after.from = before.from
        /\ after.to = before.to
        /\ after.pr_numbers =
               IF pr # None /\ pr[1] \notin Range(before.pr_numbers)
               THEN before.pr_numbers \o <<pr[1]>>
               ELSE before.pr_numbers
        /\ \A q \in DOMAIN package_updates \ {f.pkg} :
               package_updates'[q] = package_updates[q]
        /\ other_updates' = other_updates

\* C18: during consolidation, when a parsed fact (pkg, from, to, pr) arrives
\* for a package that already has an entry and neither to = entry.from nor
\* from = entry.to holds, the entry's from and to are left unchanged and only
\* pr (if present and new) is added; the entries of all other packages and
\* the passthrough list are unchanged by that step.
C18_NonChainingFactFrame ==
    [][NonChainingFactNext => FrameOfNonChainingFact]_vars

\* the second line was a non-chaining fact with a new PR number for the
\* package of the first: the entry keeps the first range and holds both numbers
C18_Witness ==
    /\ pc = "consolidate"
    /\ li = 3
    /\ parsed(updates[1]) # None
    /\ parsed(updates[2]) # None
    /\ LET f1 == parsed(updates[1])[1]
           f2 == parsed(updates[2])[1]
           p1 == line_pr_number(updates[1])
           p2 == line_pr_number(updates[2])
       IN  /\ f1.pkg = f2.pkg
           /\ f2.to # f1.from
           /\ f2.from # f1.to
           /\ f2.from # f1.from
           /\ p1 # None /\ p2 # None /\ p1 # p2
           /\ package_updates[f1.pkg] =
                  [from |-> f1.from, to |-> f1.to, pr_numbers |-> <<p1[1], p2[1]>>]

------------------------------------------------------------------------------
(* The document as a function of the map's iteration order.                 *)

\* the document generate_release_notes returns when the map of the
\* consolidation is iterated in this order
DocumentFor(order) ==
    join((IF args.dependabot_updates # <<>>
          THEN dependency_block(final_lines(package_updates, order, other_updates))
          ELSE <<>>)
         \o other_block(args.other_changes), "\n")

\* C19: generate_release_notes is deterministic: for the same dependency
\* lines and other lines, in the same order, the returned document is the
\* same whatever iteration order the package map has when the consolidated
\* lines are emitted: the document of the run is the document of every order.
C19_DocumentIndependentOfMapOrder ==
    pc = "done" =>
        \A order \in Orders(DOMAIN package_updates) : full_output = DocumentFor(order)

\* a run has returned a document for a map of two packages or more, whose
\* iteration orders give the consolidated lines in different orders
C19_Witness ==
    /\ pc = "done"
    /\ Cardinality(DOMAIN package_updates) >= 2
    /\ \E o1, o2 \in Orders(DOMAIN package_updates) :
           final_lines(package_updates, o1, other_updates)
               # final_lines(package_updates, o2, other_updates)
    /\ \A order \in Orders(DOMAIN package_updates) : full_output = DocumentFor(order)

====
